---- MODULE Spec2Model ----
(***************************************************************************)
(* Model of the transaction-construction core of the monetarium wallet:    *)
(*   - wallet/txsizes: worst-case serialize size estimators;               *)
(*   - wallet/txauthor: NewUnsignedTransaction, the fee-convergent         *)
(*     authoring loop, one loop iteration per step, and                    *)
(*     RandomizeChangePosition;                                            *)
(*   - txrules fees, the SSFee classifier and coinbase maturity;           *)
(*   - wallet/udb: the per-account consolidation address store, alone and  *)
(*     under concurrent read-write transactions.                           *)
(* Amounts of the primary asset (VAR) are int64 in the code; the model     *)
(* keeps them far below 2^63, so no overflow case is in the bounds.        *)
(***************************************************************************)
EXTENDS Integers, Sequences, FiniteSets, TLC

VARIABLES
    pc,               \* "idle" | "loop" | "done": position of the authoring call
    outputs,          \* the caller's outputs slice ([]*wire.TxOut)
    relayFeePerKb,    \* the caller's relay fee rate
    changeScriptSize, \* fetchChange.ScriptSize()
    changeScriptLen,  \* len(changeScript) returned by fetchChange.Script()
    maxTxSize,        \* the caller's maximum size
    emissionOutputs,  \* wire.IsSKAEmissionTransaction(tempTx), outputs only
    targetFee,        \* the local targetFee
    fetchLog,         \* one record per fetchInputs call: target and fee
    inputDetail,      \* the loop body's inputDetail (gone on continue)
    result,           \* what the call returned: [tx, err]
    szIn,             \* size estimators: the input script sizes
    szOut,            \* size estimators: the outputs
    szChange,         \* size estimators: the change script size
    szPc,             \* size estimators: "args" | "done"
    szResult,         \* size estimators: what the estimators returned
    feeRate,          \* fee rules: relayFeePerKb
    feeSize,          \* fee rules: txSerializeSize
    feeCoinType,      \* fee rules: coinType of the dual-coin variant
    feePc,            \* fee rules: "off" | "args" | "done"
    feeResult,        \* fee rules: what the fee functions returned
    ssfTx,            \* SSFee classifier: the transaction (*wire.MsgTx)
    ssfPc,            \* SSFee classifier: "off" | "args" | "done"
    ssfResult,        \* SSFee classifier: what the three predicates returned
    cbMaturity,       \* maturity: params.CoinbaseMaturity
    txHeight,         \* maturity: height of the block with the SSFee output
    tipHeight,        \* maturity: height of the chain tip
    matured,          \* maturity: coinbaseMatured at the current tip
    bucket,           \* consolidation store: the accountconsolidation bucket
    lastCall,         \* consolidation store: the last call and what it returned
    txns,             \* concurrent writers: each writer's operation and progress
    writer,           \* concurrent writers: holder of the read-write transaction
    expected,         \* concurrent writers: per account, the last committed effect
    inputSource       \* repeatable input source: what fetchInputs(0) returns

authorVars == <<pc, outputs, relayFeePerKb, changeScriptSize, changeScriptLen,
                maxTxSize, emissionOutputs, targetFee, fetchLog, inputDetail,
                result>>
sizeVars == <<szIn, szOut, szChange, szPc, szResult>>
feeVars == <<feeRate, feeSize, feeCoinType, feePc, feeResult>>
ssfVars == <<ssfTx, ssfPc, ssfResult>>
matVars == <<cbMaturity, txHeight, tipHeight, matured>>
storeVars == <<bucket, lastCall>>
txVars == <<txns, writer, expected>>
vars == <<authorVars, sizeVars, feeVars, ssfVars, matVars, storeVars, txVars,
          inputSource>>

\* What the operations of one component leave alone.
nonAuthorVars == <<sizeVars, feeVars, ssfVars, matVars, storeVars,
    txVars, inputSource>>
nonSizeVars == <<authorVars, feeVars, ssfVars, matVars, storeVars,
    txVars, inputSource>>
nonFeeVars == <<authorVars, sizeVars, ssfVars, matVars, storeVars,
    txVars, inputSource>>
nonSsfVars == <<authorVars, sizeVars, feeVars, matVars, storeVars,
    txVars, inputSource>>
nonMatVars == <<authorVars, sizeVars, feeVars, ssfVars, storeVars,
    txVars, inputSource>>
nonStoreVars == <<authorVars, sizeVars, feeVars, ssfVars, matVars,
    txVars, inputSource>>
nonTxVars == <<authorVars, sizeVars, feeVars, ssfVars, matVars, inputSource>>

----------------------------------------------------------------------------
(* Bounds of the model. *)

MaxAmount == 18     \* capacity of the input source: no total above it
MaxOutputs == 2     \* requested outputs per call
MaxOutValue == 2    \* value of one requested output
MaxFetches == 6     \* cap of the fetch counter (never reached by the code)

Rates == {0, 10}                \* relay fee rates, atoms per 1000 bytes
MaxTxSizes == {150, 100000}

----------------------------------------------------------------------------
(* wallet/txsizes/size.go *)

RedeemP2PKHSigScriptSize == 1 + 73 + 1 + 33
P2PKHPkScriptSize == 1 + 1 + 1 + 20 + 1 + 1

\* wire.VarIntSerializeSize: the byte length of a compact int.
VarIntSerializeSize(n) ==
    IF n < 253 THEN 1
    ELSE IF n <= 65535 THEN 3
    ELSE IF n \div 65536 <= 65535 THEN 5
    ELSE 9

CoinTypeVAR == 0

\* cointype.CoinType.IsSKA
CoinTypeIsSKA(ct) == ct >= 1 /\ ct <= 255

NoSKAValue == -1    \* a nil TxOut.SKAValue

\* Number of magnitude bytes of a secondary-asset amount.
RECURSIVE SKAValueLen(_)
SKAValueLen(v) == IF v <= 0 THEN 0 ELSE 1 + SKAValueLen(v \div 256)

\* wire.TxOut.SerializeSize: primary outputs carry an 8-byte amount,
\* secondary outputs a 1-byte length and the magnitude bytes.
TxOutSerializeSize(o) ==
    IF CoinTypeIsSKA(o.CoinType)
    THEN 1 + 1 + SKAValueLen(o.SKAValue) + 2
         + VarIntSerializeSize(o.PkScriptLen) + o.PkScriptLen
    ELSE 8 + 1 + 2 + VarIntSerializeSize(o.PkScriptLen) + o.PkScriptLen

\* The sum of f[lo..hi]: the code's accumulating for loops, split in halves
\* to keep the evaluation shallow on lists of some hundred elements.
RECURSIVE SumRange(_, _, _)
SumRange(f, lo, hi) ==
    IF lo > hi THEN 0
    ELSE IF lo = hi THEN f[lo]
    ELSE LET mid == (lo + hi) \div 2
         IN  SumRange(f, lo, mid) + SumRange(f, mid + 1, hi)

sumOutputSerializeSizes(outs) ==
    SumRange([i \in 1..Len(outs) |-> TxOutSerializeSize(outs[i])], 1, Len(outs))

EstimateInputSize(scriptSize) ==
    32 + 4 + 1 + 8 + 4 + 4 + VarIntSerializeSize(scriptSize) + scriptSize + 4

EstimateOutputSize(scriptSize) ==
    8 + 1 + 2 + VarIntSerializeSize(scriptSize) + scriptSize

\* Mutant: the change amount is sized with an 8-byte magnitude.
EstimateOutputSizeSKAEightBytes(scriptSize) ==
    1 + 1 + 8 + 2 + VarIntSerializeSize(scriptSize) + scriptSize

EstimateOutputSizeSKA(scriptSize) ==
    1 + 1 + 16 + 2 + VarIntSerializeSize(scriptSize) + scriptSize

EstimateInputPrefixSize == 32 + 4 + 1 + 4

\* Mutant: the witness estimate without the 1-byte SKAValueInLen field.
EstimateInputWitnessSizeNoLen(scriptSize) ==
    8 + 4 + 4 + VarIntSerializeSize(scriptSize) + scriptSize

EstimateInputWitnessSize(scriptSize) ==
    8 + 1 + 4 + 4 + VarIntSerializeSize(scriptSize) + scriptSize

EstimateInputWitnessSizeSKA(scriptSize) ==
    8 + 1 + 16 + 4 + 4 + VarIntSerializeSize(scriptSize) + scriptSize

prefixInputsSize(scriptSizes) ==
    SumRange([i \in 1..Len(scriptSizes) |-> EstimateInputPrefixSize],
             1, Len(scriptSizes))

witnessInputsSize(scriptSizes, isSKA) ==
    SumRange([i \in 1..Len(scriptSizes) |->
                IF isSKA THEN EstimateInputWitnessSizeSKA(scriptSizes[i])
                         ELSE EstimateInputWitnessSize(scriptSizes[i])],
             1, Len(scriptSizes))

estimateSerializeSizeInternal(scriptSizes, txOuts, changeSize, isSKA) ==
    LET inputCount == Len(scriptSizes)
        change == IF changeSize # 0
                  THEN (IF isSKA THEN EstimateOutputSizeSKA(changeSize)
                                 ELSE EstimateOutputSize(changeSize))
                  ELSE 0
        outputCount == Len(txOuts) + (IF changeSize # 0 THEN 1 ELSE 0)
        baseSize == 12 + VarIntSerializeSize(inputCount)
                       + VarIntSerializeSize(inputCount)
                       + VarIntSerializeSize(outputCount)
        outputsSize == sumOutputSerializeSizes(txOuts) + change
    IN  baseSize + prefixInputsSize(scriptSizes)
        + witnessInputsSize(scriptSizes, isSKA) + outputsSize

EstimateSerializeSize(scriptSizes, txOuts, changeSize) ==
    estimateSerializeSizeInternal(scriptSizes, txOuts, changeSize, FALSE)

EstimateSerializeSizeSKA(scriptSizes, txOuts, changeSize) ==
    estimateSerializeSizeInternal(scriptSizes, txOuts, changeSize, TRUE)

txInsSize(inputSizes) ==
    SumRange([i \in 1..Len(inputSizes) |-> EstimateInputSize(inputSizes[i])],
             1, Len(inputSizes))

txOutsSize(outputSizes) ==
    SumRange([i \in 1..Len(outputSizes) |->
                EstimateOutputSize(outputSizes[i])], 1, Len(outputSizes))

EstimateSerializeSizeFromScriptSizes(inputSizes, outputSizes, changeSize) ==
    LET change == IF changeSize > 0 THEN EstimateOutputSize(changeSize) ELSE 0
        outputCount == Len(outputSizes) + (IF changeSize > 0 THEN 1 ELSE 0)
    IN  12 + (2 * VarIntSerializeSize(Len(inputSizes)))
        + VarIntSerializeSize(outputCount)
        + txInsSize(inputSizes) + txOutsSize(outputSizes) + change

----------------------------------------------------------------------------
(* Helpers of the model. *)

Repeat(n, v) == [i \in 1..n |-> v]

SeqsUpTo(S, n) == UNION {[1..k -> S] : k \in 0..n}

VAROut(value, len) ==
    [Value |-> value, SKAValue |-> NoSKAValue, CoinType |-> CoinTypeVAR,
     PkScriptLen |-> len]

----------------------------------------------------------------------------
(* wallet/txrules: the fee rules the authoring loop calls. *)

\* Mutant: the fee rounded down.
FeeForSerializeSizeFloor(rate, size) == (size * rate) \div 1000

\* feeForSize(rate, size) = ceil(size * rate / 1000).
FeeForSerializeSize(rate, size) == (size * rate + 999) \div 1000

\* The coin-type-aware variant: one fee rule for every coin type.
FeeForSerializeSizeDualCoin(rate, size, coinType) ==
    FeeForSerializeSize(rate, size)

DustMultiplier == 3
DustRedeemInputSize == 165

\* isDust: the amount is below the fee of spending an output of that script
\* size later, scaled by the dust multiplier.
IsDustAmount(amount, scriptSize, rate) ==
    LET totalSize == 8 + 2 + VarIntSerializeSize(scriptSize) + scriptSize
                     + DustRedeemInputSize
    IN  (amount * 1000) \div (DustMultiplier * totalSize) < rate

----------------------------------------------------------------------------
(* wallet/txauthor: NewUnsignedTransaction *)

MaxScriptElementSize == 520

OpNewUnsignedTransaction == "txauthor.NewUnsignedTransaction"

NoErr == [op |-> "", kind |-> "nil", msg |-> ""]

\* errors.E(args...): the error built from the arguments given.
E(op, kind, msg) == [op |-> op, kind |-> kind, msg |-> msg]

MaxSizeMsg == "signed tx size exceeds allowed maximum"
ScriptSizeMsg == "script size exceed maximum bytes pushable to the stack"

NoTx == [nil |-> TRUE]

NotReturned == [tx |-> NoTx, err |-> NoErr]

\* No inputDetail in scope, and the nil detail of a failed fetch.
NoDetail ==
    [Amount |-> 0, SKAAmount |-> 0, RedeemScriptSizes |-> <<>>,
     emission |-> FALSE, err |-> FALSE]
ErrDetail ==
    [Amount |-> 0, SKAAmount |-> 0, RedeemScriptSizes |-> <<>>,
     emission |-> FALSE, err |-> TRUE]

SKAOut(ct, value, len) ==
    [Value |-> 0, SKAValue |-> value, CoinType |-> ct, PkScriptLen |-> len]

isSKAOutputs(outs) == Len(outs) > 0 /\ CoinTypeIsSKA(outs[1].CoinType)

sumOutputValues(outs) ==
    SumRange([i \in 1..Len(outs) |-> outs[i].Value], 1, Len(outs))

sumSKAOutputValues(outs) ==
    SumRange([i \in 1..Len(outs) |->
                IF outs[i].SKAValue # NoSKAValue THEN outs[i].SKAValue ELSE 0],
             1, Len(outs))

\* The estimator of the transaction's asset class.
EstimateFor(isSKA, scriptSizes, outs, changeSize) ==
    IF isSKA THEN EstimateSerializeSizeSKA(scriptSizes, outs, changeSize)
             ELSE EstimateSerializeSize(scriptSizes, outs, changeSize)

\* The fee estimate before the loop: one placeholder redeem script, and
\* zero when the outputs alone are an emission transaction.
InitialTargetFee(outs, rate, changeSize, emission) ==
    LET maxSignedSize ==
            EstimateFor(isSKAOutputs(outs), <<RedeemP2PKHSigScriptSize>>,
                        outs, changeSize)
    IN  IF emission THEN 0 ELSE FeeForSerializeSize(rate, maxSignedSize)

InputTarget(isSKA, targetAmount, fee) ==
    IF isSKA THEN 0 ELSE targetAmount + fee

\* Mutant: the balance check lets a total one below the target pass.
InsufficientBalanceLenient(isSKA, detail, targetAmount, targetSKAAmount, fee) ==
    IF isSKA THEN detail.SKAAmount + 1 < targetSKAAmount + fee
             ELSE detail.Amount + 1 < targetAmount + fee

\* Mutant: the balance check always on the bounded amount.
InsufficientBalanceOnAmount(isSKA, detail, targetAmount, targetSKAAmount, fee) ==
    detail.Amount < targetAmount + fee

\* Mutant: no balance check.
InsufficientBalanceNever(isSKA, detail, targetAmount, targetSKAAmount, fee) ==
    FALSE

InsufficientBalance(isSKA, detail, targetAmount, targetSKAAmount, fee) ==
    IF isSKA THEN detail.SKAAmount < targetSKAAmount + fee
             ELSE detail.Amount < targetAmount + fee

MaxRequiredFee(rate, maxSignedSize, emission) ==
    IF emission THEN 0 ELSE FeeForSerializeSize(rate, maxSignedSize)

\* Mutant: the fee check never sends the loop back.
FeeShortNever(isSKA, detail, targetAmount, targetSKAAmount, maxRequiredFee) ==
    FALSE

\* Mutant: the loop also goes back when the remaining amount is the fee.
FeeShortOrExact(isSKA, detail, targetAmount, targetSKAAmount, maxRequiredFee) ==
    IF isSKA THEN detail.SKAAmount - targetSKAAmount <= maxRequiredFee
             ELSE detail.Amount - targetAmount <= maxRequiredFee

\* The remaining amount does not cover the fee of the fetched inputs.
FeeShort(isSKA, detail, targetAmount, targetSKAAmount, maxRequiredFee) ==
    IF isSKA THEN detail.SKAAmount - targetSKAAmount < maxRequiredFee
             ELSE detail.Amount - targetAmount < maxRequiredFee

\* Mutant: no size check.
ExceedsMaxSizeNever(maxSignedSize, limit) == FALSE

ExceedsMaxSize(maxSignedSize, limit) == maxSignedSize > limit

\* Mutant: the change without the fee subtracted.
ChangeValueNoFee(isSKA, detail, targetAmount, targetSKAAmount, maxRequiredFee) ==
    IF isSKA THEN detail.SKAAmount - targetSKAAmount
             ELSE detail.Amount - targetAmount

ChangeValue(isSKA, detail, targetAmount, targetSKAAmount, maxRequiredFee) ==
    IF isSKA THEN detail.SKAAmount - targetSKAAmount - maxRequiredFee
             ELSE detail.Amount - targetAmount - maxRequiredFee

\* Mutant: the change decision without the dust test.
HasChangeNoDustTest(isSKA, change, changeSize, rate) ==
    IF isSKA THEN change # 0 /\ ~(change < 0)
             ELSE change # 0

HasChange(isSKA, change, changeSize, rate) ==
    IF isSKA THEN change # 0 /\ ~(change < 0)
             ELSE change # 0 /\ ~IsDustAmount(change, changeSize, rate)

\* Mutant: the change script checked before the change decision.
ChangeScriptTooLongAlways(hasChange, scriptLen) ==
    scriptLen > MaxScriptElementSize

\* The change script check sits inside the hasChange branch.
ChangeScriptTooLong(hasChange, scriptLen) ==
    hasChange /\ scriptLen > MaxScriptElementSize

ChangeOutput(isSKA, outs, change, scriptLen) ==
    LET changeCoinType == IF Len(outs) > 0 THEN outs[1].CoinType
                                           ELSE CoinTypeVAR
    IN  IF isSKA THEN SKAOut(changeCoinType, change, scriptLen)
                 ELSE [Value |-> change, SKAValue |-> NoSKAValue,
                       CoinType |-> changeCoinType, PkScriptLen |-> scriptLen]

\* Mutant: an empty transaction returned beside the error.
ErrorReturnPartial(err) ==
    [tx |-> [nil |-> FALSE, Inputs |-> 0, TxOut |-> <<>>, TotalInput |-> 0,
             SKATotalInput |-> 0, ChangeIndex |-> -1,
             EstimatedSignedSerializeSize |-> 0],
     err |-> err]

\* return nil, err
ErrorReturn(err) == [tx |-> NoTx, err |-> err]

\* Mutant: the outputs of the transaction in reverse order.
AuthoredReversed(detail, txOut, changeIndex, maxSignedSize) ==
    [tx |-> [nil |-> FALSE,
             Inputs |-> Len(detail.RedeemScriptSizes),
             TxOut |-> [i \in 1..Len(txOut) |-> txOut[Len(txOut) + 1 - i]],
             TotalInput |-> detail.Amount,
             SKATotalInput |-> detail.SKAAmount,
             ChangeIndex |-> changeIndex,
             EstimatedSignedSerializeSize |-> maxSignedSize],
     err |-> NoErr]

\* return &AuthoredTx{...}, nil
Authored(detail, txOut, changeIndex, maxSignedSize) ==
    [tx |-> [nil |-> FALSE,
             Inputs |-> Len(detail.RedeemScriptSizes),
             TxOut |-> txOut,
             TotalInput |-> detail.Amount,
             SKATotalInput |-> detail.SKAAmount,
             ChangeIndex |-> changeIndex,
             EstimatedSignedSerializeSize |-> maxSignedSize],
     err |-> NoErr]

\* Mutant: the with-change estimate is returned without a change output too.
AssembleOneEstimate(isSKA, detail, outs, rate, changeSize, scriptLen, limit, maxSignedSize, maxRequiredFee) ==
    LET change == ChangeValue(isSKA, detail, sumOutputValues(outs),
                              IF isSKA THEN sumSKAOutputValues(outs) ELSE 0,
                              maxRequiredFee)
        hasChange == HasChange(isSKA, change, changeSize, rate)
    IN  IF ExceedsMaxSize(maxSignedSize, limit)
        THEN ErrorReturn(E("", "Invalid", MaxSizeMsg))
        ELSE IF ChangeScriptTooLong(hasChange, scriptLen)
        THEN ErrorReturn(E("", "Invalid", ScriptSizeMsg))
        ELSE IF hasChange
        THEN Authored(detail,
                      Append(outs, ChangeOutput(isSKA, outs, change,
                                                scriptLen)),
                      Len(outs), maxSignedSize)
        ELSE Authored(detail, outs, -1, maxSignedSize)

\* The code after the fee is covered: size check, change decision, return.
Assemble(isSKA, detail, outs, rate, changeSize, scriptLen, limit, maxSignedSize, maxRequiredFee) ==
    LET change == ChangeValue(isSKA, detail, sumOutputValues(outs),
                              IF isSKA THEN sumSKAOutputValues(outs) ELSE 0,
                              maxRequiredFee)
        hasChange == HasChange(isSKA, change, changeSize, rate)
    IN  IF ExceedsMaxSize(maxSignedSize, limit)
        THEN ErrorReturn(E("", "Invalid", MaxSizeMsg))
        ELSE IF ChangeScriptTooLong(hasChange, scriptLen)
        THEN ErrorReturn(E("", "Invalid", ScriptSizeMsg))
        ELSE IF hasChange
        THEN Authored(detail,
                      Append(outs, ChangeOutput(isSKA, outs, change,
                                                scriptLen)),
                      Len(outs), maxSignedSize)
        ELSE Authored(detail, outs, -1,
                      EstimateFor(isSKA, detail.RedeemScriptSizes, outs, 0))

NoSizes == [primary |-> -1, fromScriptSizes |-> -1]

AuthorIdle ==
    /\ pc = "idle"
    /\ outputs = <<>>
    /\ relayFeePerKb = 0
    /\ changeScriptSize = 0
    /\ changeScriptLen = 0
    /\ maxTxSize = 0
    /\ emissionOutputs = FALSE
    /\ targetFee = 0
    /\ fetchLog = <<>>
    /\ inputDetail = NoDetail
    /\ result = NotReturned

SizeIdle ==
    /\ szIn = <<>>
    /\ szOut = <<>>
    /\ szChange = 0
    /\ szPc = "off"
    /\ szResult = NoSizes

NoFee == [fee |-> -1, dualCoin |-> -1]

FeeIdle ==
    /\ feeRate = 0
    /\ feeSize = 0
    /\ feeCoinType = CoinTypeVAR
    /\ feePc = "off"
    /\ feeResult = NoFee

NoMsgTx == [Version |-> 0, TxIn |-> <<>>, TxOut |-> <<>>]
NoClassification == [ssFeeType |-> "?", isSSFee |-> FALSE, isMiner |-> FALSE]

SsfIdle ==
    /\ ssfTx = NoMsgTx
    /\ ssfPc = "off"
    /\ ssfResult = NoClassification

\* A nil byte slice, and the byte slice of the given bytes.
NilBytes == [isNil |-> TRUE, bytes |-> <<>>]
Bytes(seq) == [isNil |-> FALSE, bytes |-> seq]

NoBucket == [exists |-> FALSE, records |-> [k \in {} |-> NilBytes]]
NoCall == [op |-> "", account |-> "", hash160 |-> NilBytes, fault |-> FALSE,
           err |-> NoErr, value |-> NilBytes]

MatIdle ==
    /\ cbMaturity = 0
    /\ txHeight = 0
    /\ tipHeight = 0
    /\ matured = FALSE

StoreIdle ==
    /\ bucket = NoBucket
    /\ lastCall = NoCall

TxIdle ==
    /\ txns = <<>>
    /\ writer = 0
    /\ expected = <<>>

SourceIdle == inputSource = NoDetail

\* The components other than the named one are not in use.
OthersIdleThanAuthor == SizeIdle /\ FeeIdle /\ SsfIdle /\ MatIdle /\ StoreIdle
    /\ TxIdle /\ SourceIdle
OthersIdleThanSize == AuthorIdle /\ FeeIdle /\ SsfIdle /\ MatIdle /\ StoreIdle
    /\ TxIdle /\ SourceIdle
OthersIdleThanFee == AuthorIdle /\ SizeIdle /\ SsfIdle /\ MatIdle /\ StoreIdle
    /\ TxIdle /\ SourceIdle
OthersIdleThanSsf == AuthorIdle /\ SizeIdle /\ FeeIdle /\ MatIdle /\ StoreIdle
    /\ TxIdle /\ SourceIdle
OthersIdleThanMat == AuthorIdle /\ SizeIdle /\ FeeIdle /\ SsfIdle /\ StoreIdle
    /\ TxIdle /\ SourceIdle
OthersIdleThanStore == AuthorIdle /\ SizeIdle /\ FeeIdle /\ SsfIdle /\ MatIdle
    /\ TxIdle /\ SourceIdle

OthersIdleThanTx ==
    AuthorIdle /\ SizeIdle /\ FeeIdle /\ SsfIdle /\ MatIdle /\ SourceIdle

(* The inputs of the model. *)

ModelCoinTypes == {CoinTypeVAR, 1}
OutValues == 1..MaxOutValue

OutputLists ==
    UNION {
        {[i \in 1..Len(vs) |->
            IF ct = CoinTypeVAR THEN VAROut(vs[i], P2PKHPkScriptSize)
                                ELSE SKAOut(ct, vs[i], P2PKHPkScriptSize)] :
         vs \in SeqsUpTo(OutValues, MaxOutputs)} : ct \in ModelCoinTypes}

ChangeScriptSizes == {0, P2PKHPkScriptSize}
ChangeScriptLens == {P2PKHPkScriptSize, MaxScriptElementSize + 1}
RedeemScriptSizeLists ==
    {<<25>>, <<RedeemP2PKHSigScriptSize>>,
     <<RedeemP2PKHSigScriptSize, RedeemP2PKHSigScriptSize>>}

\* What the input source can return for a call on the given outputs: totals
\* up to its capacity; IsSKAEmissionTransaction of the transaction with the
\* inputs is the input source's doing (a null emission input).
Details(outs) ==
    IF isSKAOutputs(outs)
    THEN [Amount : {0}, SKAAmount : 0..MaxAmount,
          RedeemScriptSizes : RedeemScriptSizeLists, emission : BOOLEAN,
          err : {FALSE}]
    ELSE [Amount : 0..MaxAmount, SKAAmount : {0},
          RedeemScriptSizes : RedeemScriptSizeLists, emission : {FALSE},
          err : {FALSE}]

Init ==
    /\ AuthorIdle
    /\ OthersIdleThanAuthor

SetArgs(outs, rate, changeSize, scriptLen, limit, emission) ==
    /\ outputs' = outs
    /\ relayFeePerKb' = rate
    /\ changeScriptSize' = changeSize
    /\ changeScriptLen' = scriptLen
    /\ maxTxSize' = limit
    /\ emissionOutputs' = emission

\* NewUnsignedTransaction up to the loop: fetchChange.Script() succeeds.
Call ==
    /\ pc = "idle"
    /\ \E outs \in OutputLists, rate \in Rates,
          changeSize \in ChangeScriptSizes, scriptLen \in ChangeScriptLens,
          limit \in MaxTxSizes, emission \in BOOLEAN :
          /\ emission => isSKAOutputs(outs)
          /\ SetArgs(outs, rate, changeSize, scriptLen, limit, emission)
          /\ targetFee' = InitialTargetFee(outs, rate, changeSize, emission)
    /\ pc' = "loop"
    /\ UNCHANGED <<fetchLog, inputDetail, result, nonAuthorVars>>

\* NewUnsignedTransaction when fetchChange.Script() returns an error.
CallChangeError ==
    /\ pc = "idle"
    /\ \E outs \in OutputLists, rate \in Rates, limit \in MaxTxSizes :
          SetArgs(outs, rate, 0, 0, limit, FALSE)
    /\ result' = ErrorReturn(E(OpNewUnsignedTransaction, "ChangeSource", ""))
    /\ pc' = "done"
    /\ UNCHANGED <<targetFee, fetchLog, inputDetail, nonAuthorVars>>

Logged(isSKA) ==
    Append(fetchLog,
           [target |-> InputTarget(isSKA, sumOutputValues(outputs), targetFee),
            fee |-> targetFee])

\* One loop iteration in which fetchInputs returns an error.
FetchError ==
    /\ pc = "loop"
    /\ Len(fetchLog) < MaxFetches
    /\ fetchLog' = Logged(isSKAOutputs(outputs))
    /\ inputDetail' = ErrDetail
    /\ result' = ErrorReturn(E(OpNewUnsignedTransaction, "InputSource", ""))
    /\ pc' = "done"
    /\ UNCHANGED <<outputs, relayFeePerKb, changeScriptSize, changeScriptLen,
                   maxTxSize, emissionOutputs, targetFee, nonAuthorVars>>

\* The loop body from the return of fetchInputs with detail to the return
\* or the continue.
IterateOn(detail) ==
    LET isSKA == isSKAOutputs(outputs)
        targetAmount == sumOutputValues(outputs)
        targetSKAAmount == IF isSKA THEN sumSKAOutputValues(outputs)
                                    ELSE 0
        maxSignedSize == EstimateFor(isSKA, detail.RedeemScriptSizes,
                                     outputs, changeScriptSize)
        maxRequiredFee == MaxRequiredFee(relayFeePerKb, maxSignedSize,
                                         detail.emission)
    IN  /\ fetchLog' = Logged(isSKA)
        /\ IF InsufficientBalance(isSKA, detail, targetAmount,
                                  targetSKAAmount, targetFee)
           THEN /\ result' = ErrorReturn(E(OpNewUnsignedTransaction,
                                           "InsufficientBalance", ""))
                /\ pc' = "done"
                /\ inputDetail' = detail
                /\ UNCHANGED targetFee
           ELSE IF FeeShort(isSKA, detail, targetAmount,
                            targetSKAAmount, maxRequiredFee)
           THEN /\ targetFee' = maxRequiredFee
                /\ pc' = "loop"
                /\ inputDetail' = NoDetail
                /\ UNCHANGED result
           ELSE /\ result' = Assemble(isSKA, detail, outputs,
                                      relayFeePerKb, changeScriptSize,
                                      changeScriptLen, maxTxSize,
                                      maxSignedSize, maxRequiredFee)
                /\ pc' = "done"
                /\ inputDetail' = detail
                /\ UNCHANGED targetFee

\* One loop iteration in which fetchInputs returns detail.
Iterate ==
    /\ pc = "loop"
    /\ Len(fetchLog) < MaxFetches
    /\ \E detail \in Details(outputs) : IterateOn(detail)
    /\ UNCHANGED <<outputs, relayFeePerKb, changeScriptSize, changeScriptLen,
                   maxTxSize, emissionOutputs, nonAuthorVars>>

Next == Call \/ CallChangeError \/ FetchError \/ Iterate

Spec == Init /\ [][Next]_vars

----------------------------------------------------------------------------
(* Claims about NewUnsignedTransaction. *)

Succeeded == pc = "done" /\ result.err = NoErr
Failed == pc = "done" /\ result.err # NoErr
IsSKACall == isSKAOutputs(outputs)

\* The call returned from the part of the loop body after the balance check
\* and the fee check, with inputDetail the detail it worked on.
Assembled ==
    /\ pc = "done"
    /\ inputDetail # NoDetail
    /\ ~inputDetail.err
    /\ result.err.kind # "InsufficientBalance"

OutAmount(o) == IF CoinTypeIsSKA(o.CoinType) THEN o.SKAValue ELSE o.Value
SumAmounts(outs) ==
    SumRange([i \in 1..Len(outs) |-> OutAmount(outs[i])], 1, Len(outs))

TotalIn == IF IsSKACall THEN inputDetail.SKAAmount ELSE inputDetail.Amount
ReturnedTotalIn ==
    IF IsSKACall THEN result.tx.SKATotalInput ELSE result.tx.TotalInput
PaidFee == ReturnedTotalIn - SumAmounts(result.tx.TxOut)
HasChangeOut == result.tx.ChangeIndex >= 0
Emission == inputDetail.emission
ReturnedSize == result.tx.EstimatedSignedSerializeSize

WithChangeEstimate ==
    EstimateFor(IsSKACall, inputDetail.RedeemScriptSizes, outputs,
                changeScriptSize)
NoChangeEstimate ==
    EstimateFor(IsSKACall, inputDetail.RedeemScriptSizes, outputs, 0)
RequiredFee ==
    IF Emission THEN 0 ELSE FeeForSerializeSize(relayFeePerKb, WithChangeEstimate)

\* change = inputs - requested outputs - required fee
Change == TotalIn - SumAmounts(outputs) - RequiredFee
ChangeRequired ==
    IF IsSKACall THEN Change > 0
    ELSE Change # 0 /\ ~IsDustAmount(Change, changeScriptSize, relayFeePerKb)

\* C1 as stated: on success, inputs minus all outputs equals
\* feeForSize(relayFeePerKb, EstimatedSignedSerializeSize) exactly.
C1_PaidFeeEqualsFeeOfFinalSize ==
    Succeeded => PaidFee = FeeForSerializeSize(relayFeePerKb, ReturnedSize)

\* C1 amended: on success of a non-emission call that adds a change output,
\* inputs minus all outputs equals feeForSize(relayFeePerKb,
\* EstimatedSignedSerializeSize) exactly; when no change output is added the
\* whole remainder is the fee: feeForSize of the with-change estimate plus
\* the unreturned change (zero, or a dust amount of the primary asset),
\* never less than feeForSize of the returned size; an emission transaction
\* requires fee 0.
C1_PaidFeeAmended ==
    Succeeded =>
        /\ (HasChangeOut /\ ~Emission) =>
              PaidFee = FeeForSerializeSize(relayFeePerKb, ReturnedSize)
        /\ (HasChangeOut /\ Emission) => PaidFee = 0
        /\ ~HasChangeOut =>
              /\ PaidFee = RequiredFee + Change
              /\ Change >= 0
              /\ Change = 0 \/ (~IsSKACall /\ IsDustAmount(Change,
                                       changeScriptSize, relayFeePerKb))
              /\ ~Emission =>
                    PaidFee >= FeeForSerializeSize(relayFeePerKb, ReturnedSize)

C1_Witness ==
    /\ Succeeded
    /\ HasChangeOut
    /\ ~Emission
    /\ Len(fetchLog) >= 2
    /\ PaidFee > 0
    /\ PaidFee = FeeForSerializeSize(relayFeePerKb, ReturnedSize)

\* C2 as stated: on success inputs >= all outputs + feeForSize(relayFeePerKb,
\* returned size), and with a positive rate a non-emission transaction pays
\* a strictly positive fee.
C2_FeeNeverUndershoots ==
    Succeeded =>
        /\ PaidFee >= FeeForSerializeSize(relayFeePerKb, ReturnedSize)
        /\ (relayFeePerKb > 0 /\ ~Emission) => PaidFee > 0

\* C2 amended: on success of a non-emission call inputs >= all outputs +
\* feeForSize(relayFeePerKb, returned size), strictly positive for a
\* positive rate; an emission transaction requires no fee and only has
\* inputs >= outputs.
C2_FeeNeverUndershootsAmended ==
    Succeeded =>
        /\ ~Emission =>
              /\ PaidFee >= FeeForSerializeSize(relayFeePerKb, ReturnedSize)
              /\ relayFeePerKb > 0 => PaidFee > 0
        /\ Emission => PaidFee >= 0

C2_Witness ==
    /\ Succeeded
    /\ ~Emission
    /\ IsSKACall
    /\ ~HasChangeOut
    /\ relayFeePerKb > 0
    /\ PaidFee > FeeForSerializeSize(relayFeePerKb, ReturnedSize)

\* C3: on success a change output is appended iff change # 0 and not dust
\* (primary asset), iff change > 0 (secondary asset); the appended output
\* carries the value change and the coin type of outputs[0].
C3_ChangeRule ==
    Succeeded =>
        /\ HasChangeOut <=> ChangeRequired
        /\ HasChangeOut =>
              LET co == result.tx.TxOut[Len(result.tx.TxOut)]
              IN  /\ Len(result.tx.TxOut) = Len(outputs) + 1
                  /\ OutAmount(co) = Change
                  /\ Len(outputs) > 0 => co.CoinType = outputs[1].CoinType
        /\ ~HasChangeOut => result.tx.TxOut = outputs

C3_Witness ==
    /\ Succeeded
    /\ ~IsSKACall
    /\ Len(outputs) > 0
    /\ Change > 0
    /\ IsDustAmount(Change, changeScriptSize, relayFeePerKb)
    /\ ~HasChangeOut

\* C4: when the fetched total is below target + the current fee estimate
\* (bounded amount for the primary asset, arbitrary-precision total for a
\* secondary asset) the call ends at once with InsufficientBalance and no
\* transaction; the input source is not called again.
LastFee == fetchLog[Len(fetchLog)].fee
FetchedTooLittle ==
    /\ fetchLog # <<>>
    /\ inputDetail # NoDetail
    /\ ~inputDetail.err
    /\ TotalIn < SumAmounts(outputs) + LastFee
C4_InsufficientBalanceNoRetry ==
    /\ FetchedTooLittle =>
          /\ pc = "done"
          /\ result.err = E(OpNewUnsignedTransaction, "InsufficientBalance", "")
          /\ result.tx = NoTx
    /\ (pc = "done" /\ result.err.kind = "InsufficientBalance") =>
          FetchedTooLittle

C4_Witness ==
    /\ FetchedTooLittle
    /\ IsSKACall
    /\ Len(fetchLog) = 2
    /\ result.err.kind = "InsufficientBalance"

\* C5: with an input source of finite capacity every call terminates after
\* a bounded number of input fetches, with a transaction or an error: a call
\* that has not returned can always take its next step, every step of the
\* loop is one more fetch, and the fetches of a call that is still in the
\* loop number at most its fee estimate, which the capacity bounds.
C5_Terminates ==
    /\ [](/\ pc = "done" \/ ENABLED Next
          /\ pc = "loop" => /\ Len(fetchLog) < MaxFetches
                             /\ Len(fetchLog) <= targetFee
          /\ Len(fetchLog) <= MaxAmount + 2
          /\ pc = "done" => result # NotReturned)
    /\ [][pc = "loop" => Len(fetchLog') = Len(fetchLog) + 1]_vars

C5_Witness ==
    /\ Succeeded
    /\ Len(fetchLog) >= 3

\* C6: a failing call returns no transaction at all, whatever the failure.
C6_NoPartialTransaction ==
    /\ Failed => result.tx = NoTx
    /\ Succeeded => result.tx # NoTx

C6_Witness ==
    /\ Failed
    /\ result.err.msg = ScriptSizeMsg
    /\ result.tx = NoTx

SizeError == result.err.msg = MaxSizeMsg
ScriptError == result.err.msg = ScriptSizeMsg
FinalEstimate ==
    IF ChangeRequired THEN WithChangeEstimate ELSE NoChangeEstimate

\* C7 as stated: the size error is returned exactly when the final size
\* estimate (with change if a change output is added, without otherwise)
\* exceeds maxTxSize.
C7_SizeErrorIffFinalEstimateTooLarge ==
    Assembled =>
        /\ SizeError <=> FinalEstimate > maxTxSize
        /\ Succeeded => ReturnedSize <= maxTxSize

\* C7 amended: once the fee is covered, the size error is returned exactly
\* when the estimate that includes a change output of changeScriptSize
\* exceeds maxTxSize, whether or not a change output is then added; so every
\* returned EstimatedSignedSerializeSize is <= maxTxSize, and a transaction
\* whose with-change estimate is <= maxTxSize is not rejected for size.
C7_SizeErrorIffWithChangeEstimateTooLarge ==
    Assembled =>
        /\ SizeError <=> WithChangeEstimate > maxTxSize
        /\ Succeeded => ReturnedSize <= maxTxSize

C7_Witness ==
    /\ Assembled
    /\ SizeError
    /\ ~ChangeRequired
    /\ NoChangeEstimate <= maxTxSize
    /\ WithChangeEstimate > maxTxSize

\* C8: a change script longer than the maximum pushable element size fails
\* the call iff the change rule requires a change output; with no change
\* output required the call succeeds whatever the script's length.
C8_ScriptErrorOnlyWithChange ==
    (Assembled /\ ~SizeError) =>
        /\ ScriptError <=>
              (ChangeRequired /\ changeScriptLen > MaxScriptElementSize)
        /\ ScriptError => result = ErrorReturn(E("", "Invalid", ScriptSizeMsg))
        /\ ~ChangeRequired => Succeeded

C8_Witness ==
    /\ Succeeded
    /\ changeScriptLen > MaxScriptElementSize
    /\ Change > 0
    /\ ~ChangeRequired

----------------------------------------------------------------------------
(* The size estimators applied to bounded inputs. *)

MaxSzLen == 2       \* length of the freely chosen script-size lists

SzScriptSizes == {0, 25, RedeemP2PKHSigScriptSize, 253, 65536}
SzOutputLens == {0, P2PKHPkScriptSize, 253}
SzLongCounts == {252, 253}      \* 0xfc, 0xfd: the compact-int boundary

\* The script lengths of a list of outputs.
PkScriptLens(outs) == [i \in 1..Len(outs) |-> outs[i].PkScriptLen]

SzInputLists ==
    SeqsUpTo(SzScriptSizes, MaxSzLen)
    \cup {Repeat(n, RedeemP2PKHSigScriptSize) : n \in SzLongCounts}

SzOutputLenLists ==
    SeqsUpTo(SzOutputLens, MaxSzLen)
    \cup {Repeat(n, P2PKHPkScriptSize) : n \in SzLongCounts}

SizeInit ==
    /\ OthersIdleThanSize
    /\ szIn \in SzInputLists
    /\ \E lens \in SzOutputLenLists :
           szOut = [i \in 1..Len(lens) |-> VAROut(0, lens[i])]
    /\ szChange \in SzOutputLens
    /\ szPc = "args"
    /\ szResult = NoSizes

\* One evaluation of the estimators on the drawn inputs.
Estimate ==
    /\ szPc = "args"
    /\ szPc' = "done"
    /\ szResult' =
          [primary |-> EstimateSerializeSize(szIn, szOut, szChange),
           fromScriptSizes |->
              EstimateSerializeSizeFromScriptSizes(szIn, PkScriptLens(szOut),
                                                   szChange)]
    /\ UNCHANGED <<szIn, szOut, szChange, nonSizeVars>>

SizeNext == Estimate

SizeSpec == SizeInit /\ [][SizeNext]_vars

----------------------------------------------------------------------------
(* Claims about the size estimators. *)

\* The compact-int byte length as the size formula states it.
CompactIntLen(n) == IF n < 253 THEN 1 ELSE IF n < 65536 THEN 3 ELSE 5

\* The sum of term(v) over the elements v of the list f, counted by value.
RECURSIVE SumOverValues(_, _, _)
SumOverValues(f, values, term) ==
    IF values = {} THEN 0
    ELSE LET v == CHOOSE x \in values : TRUE
         IN  Cardinality({i \in DOMAIN f : f[i] = v}) * term[v]
             + SumOverValues(f, values \ {v}, term)

Elements(f) == {f[i] : i \in DOMAIN f}

InputTerm(s) == 41 + 17 + CompactIntLen(s) + s
OutputTerm(len) == 11 + CompactIntLen(len) + len

ChangeRequested == IF szChange # 0 THEN 1 ELSE 0

PrimaryClosedForm ==
    12 + 2 * CompactIntLen(Len(szIn))
    + CompactIntLen(Len(szOut) + ChangeRequested)
    + SumOverValues(szIn, Elements(szIn),
                    [s \in Elements(szIn) |-> InputTerm(s)])
    + SumOverValues(PkScriptLens(szOut), Elements(PkScriptLens(szOut)),
                    [l \in Elements(PkScriptLens(szOut)) |-> OutputTerm(l)])
    + ChangeRequested * OutputTerm(szChange)

\* C9: the primary-format EstimateSerializeSize equals 12 + 2*varint(#in)
\* + varint(#out + [change]) + sum of (41 + 17 + varint(s) + s) over the
\* inputs + sum of (11 + varint(len) + len) over the outputs + the change
\* output's size when requested; 0xfc outputs plus change size like 0xfd
\* outputs; one 108-byte redeem script alone gives 182.
C9_PrimaryEstimateFormula ==
    szPc = "done" =>
        /\ szResult.primary = PrimaryClosedForm
        /\ (szIn = <<108>> /\ szOut = <<>> /\ szChange = 0)
              => szResult.primary = 182
        /\ (szIn = <<108>> /\ PkScriptLens(szOut) = Repeat(252, 25)
             /\ szChange = 25) => szResult.primary = 9545
        /\ (szIn = <<108>> /\ PkScriptLens(szOut) = Repeat(253, 25)
             /\ szChange = 0) => szResult.primary = 9545

C9_Witness ==
    /\ szPc = "done"
    /\ szIn = <<108>>
    /\ Len(szOut) = 252
    /\ szChange = 25
    /\ szResult.primary = 9545

\* C10: EstimateSerializeSizeFromScriptSizes is never smaller than
\* EstimateSerializeSize on the same input script sizes, outputs of the
\* same script sizes and the same change script size.
C10_FromScriptSizesNeverUndershoots ==
    szPc = "done" => szResult.fromScriptSizes >= szResult.primary

----------------------------------------------------------------------------
(* The secondary-format estimator applied to bounded inputs. *)

SzSKAScriptSizes == {25, RedeemP2PKHSigScriptSize}
SzSKAValues == {0, 1, 256}      \* magnitudes of 0, 1 and 2 bytes
SzSKAChangeSizes == {0, P2PKHPkScriptSize}

SzSKAOutputLists ==
    {[i \in 1..Len(vs) |-> SKAOut(1, vs[i], P2PKHPkScriptSize)] :
        vs \in SeqsUpTo(SzSKAValues, MaxSzLen)}

SKASizeInit ==
    /\ OthersIdleThanSize
    /\ FeeIdle
    /\ szIn \in SeqsUpTo(SzSKAScriptSizes, MaxSzLen)
    /\ szOut \in SzSKAOutputLists
    /\ szChange \in SzSKAChangeSizes
    /\ szPc = "args"
    /\ szResult = NoSizes

\* One evaluation of both format variants on the drawn inputs.
EstimateSKA ==
    /\ szPc = "args"
    /\ szPc' = "done"
    /\ szResult' =
          [primary |-> EstimateSerializeSize(szIn, szOut, szChange),
           ska |-> EstimateSerializeSizeSKA(szIn, szOut, szChange)]
    /\ UNCHANGED <<szIn, szOut, szChange, nonSizeVars>>

SKASizeNext == EstimateSKA

SKASizeSpec == SKASizeInit /\ [][SKASizeNext]_vars

(* Claims about the secondary-format estimator. *)

\* The number of bytes of the magnitude of a secondary-asset amount.
MagnitudeBytes(v) ==
    CHOOSE k \in 0..3 : v < 256 ^ k /\ (k = 0 \/ v >= 256 ^ (k - 1))

SumOver(f) == SumOverValues(f, Elements(f), [x \in Elements(f) |-> x])

SKAInputTerms == [i \in DOMAIN szIn |-> 41 + 8 + 1 + 16 + 4 + 4
                                        + CompactIntLen(szIn[i]) + szIn[i]]

\* Every requested output with a 16-byte magnitude.
SKAOutputTermsWorstCase ==
    [i \in DOMAIN szOut |-> 1 + 1 + 16 + 2
                            + CompactIntLen(szOut[i].PkScriptLen)
                            + szOut[i].PkScriptLen]

\* Every requested output with the magnitude bytes of its own amount.
SKAOutputTermsSerialized ==
    [i \in DOMAIN szOut |-> 1 + 1 + MagnitudeBytes(szOut[i].SKAValue) + 2
                            + CompactIntLen(szOut[i].PkScriptLen)
                            + szOut[i].PkScriptLen]

SKAChangeTerm ==
    ChangeRequested * (1 + 1 + 16 + 2 + CompactIntLen(szChange) + szChange)

SKAClosedForm(outputTerms) ==
    12 + 2 * CompactIntLen(Len(szIn))
    + CompactIntLen(Len(szOut) + ChangeRequested)
    + SumOver(SKAInputTerms) + SumOver(outputTerms) + SKAChangeTerm

\* C11 (as stated): EstimateSerializeSizeSKA sizes every output amount,
\* requested outputs and change alike, as a 1-byte length plus a 16-byte
\* magnitude whatever the amount, and every input witness with a 1-byte
\* length plus a 16-byte secondary value; the secondary-format estimate is
\* never below the primary-format estimate.
C11_SKAEstimateAssumesSixteenEverywhere ==
    szPc = "done" =>
        /\ szResult.ska = SKAClosedForm(SKAOutputTermsWorstCase)
        /\ szResult.ska >= szResult.primary

\* C11 (amended): EstimateSerializeSizeSKA sizes the change output's amount
\* and every input witness's secondary value as a 1-byte length plus 16
\* bytes, and each requested output at its own serialized size (1-byte
\* length plus the magnitude bytes of its amount); the secondary-format
\* estimate is never below the primary-format estimate, and exceeds it by
\* 16 per input plus 9 for a requested change output.
C11_SKAEstimateWorstCaseChangeAndWitness ==
    szPc = "done" =>
        /\ szResult.ska = SKAClosedForm(SKAOutputTermsSerialized)
        /\ szResult.ska >= szResult.primary
        /\ szResult.ska = szResult.primary + 16 * Len(szIn)
                          + 9 * ChangeRequested

C11_Witness ==
    /\ szPc = "done"
    /\ Len(szIn) = 2
    /\ Len(szOut) = 2
    /\ szOut[1].SKAValue = 1
    /\ szOut[2].SKAValue = 256
    /\ szChange = P2PKHPkScriptSize
    /\ szResult.ska > szResult.primary

----------------------------------------------------------------------------
(* The fee rules applied to bounded rates and sizes. *)

MaxFeeSize == 120   \* the largest serialize size the fee is computed for

FeeRates == {0, 1, 3, 10, 999, 1000, 1001}
FeeCoinTypes == {CoinTypeVAR, 1, 2, 255}

FeeInit ==
    /\ OthersIdleThanFee
    /\ feeRate \in FeeRates
    /\ feeSize = 0
    /\ feeCoinType \in FeeCoinTypes
    /\ feePc = "args"
    /\ feeResult = NoFee

Fees(rate, size, coinType) ==
    [fee |-> FeeForSerializeSize(rate, size),
     dualCoin |-> FeeForSerializeSizeDualCoin(rate, size, coinType)]

\* The fee of the drawn rate, size and coin type.
CalcFee ==
    /\ feePc = "args"
    /\ feePc' = "done"
    /\ feeResult' = Fees(feeRate, feeSize, feeCoinType)
    /\ UNCHANGED <<feeRate, feeSize, feeCoinType, nonFeeVars>>

\* The fee of the same rate and coin type for a size one byte larger.
CalcFeeOfLargerSize ==
    /\ feePc = "done"
    /\ feeSize < MaxFeeSize
    /\ feeSize' = feeSize + 1
    /\ feeResult' = Fees(feeRate, feeSize + 1, feeCoinType)
    /\ UNCHANGED <<feeRate, feeCoinType, feePc, nonFeeVars>>

FeeNext == CalcFee \/ CalcFeeOfLargerSize

FeeSpec == FeeInit /\ [][FeeNext]_vars

(* Claims about the fee rules. *)

\* C12: for every non-negative rate and size, feeForSize(rate, size) is
\* the least integer f with f * 1000 >= size * rate; it does not decrease
\* when the size grows; and FeeForSerializeSizeDualCoin returns the same
\* value for every coin type.
C12_FeeIsCeilingAndMonotone ==
    /\ [](feePc = "done" =>
            /\ feeResult.fee * 1000 >= feeSize * feeRate
            /\ (feeResult.fee - 1) * 1000 < feeSize * feeRate
            /\ feeResult.dualCoin = feeResult.fee)
    /\ [][feePc = "done" => feeResult'.fee >= feeResult.fee]_vars

C12_Witness ==
    /\ feePc = "done"
    /\ feeRate = 3
    /\ feeSize = 101
    /\ feeCoinType = 255
    /\ feeResult.fee = 1
    /\ feeResult.dualCoin = 1

----------------------------------------------------------------------------
(* wallet/udb: the SSFee classifier (getSSFeeType, isSSFeeTx,              *)
(* isSSFeeMinerTx), on transactions as the tests build them.               *)

MaxRewards == 5     \* reward outputs before the final output
MaxInputs == 2      \* inputs of a transaction

OP_RETURN == 106
OP_DATA_6 == 6
ByteM == 77
ByteS == 83
ByteF == 70
SSFeeMinVersion == 3
SSFeeMaxRewards == 4

\* chainhash.Hash{} and a hash of a real transaction.
ZeroHash == Repeat(32, 0)
RealHash == [i \in 1..32 |-> i]

\* wire.MaxPrevOutIndex = 0xffffffff and index 0, as two 16-bit halves.
MaxPrevOutIndex == <<65535, 65535>>
IndexZero == <<0, 0>>

TxIn(hash, index, sigScript) ==
    [PreviousOutPoint |-> [Hash |-> hash, Index |-> index],
     SignatureScript |-> sigScript]

NullInput == TxIn(ZeroHash, MaxPrevOutIndex, <<>>)
AugmentedInput == TxIn(RealHash, IndexZero, <<>>)
CoinbaseInput == TxIn(ZeroHash, MaxPrevOutIndex, <<0, 1>>)
SignedInput == TxIn(RealHash, IndexZero, <<0, 1>>)

TxOut(value, coinType, pkScript) ==
    [Value |-> value, CoinType |-> coinType, PkScript |-> pkScript]

\* The marker script: OP_RETURN, OP_DATA_6, the tag, 4 height bytes.
MarkerScript(tag1, tag2, height) == <<OP_RETURN, OP_DATA_6, tag1, tag2>> \o height

HeightBytes == <<0, 0, 0, 0>>
DummyP2PKH == Repeat(P2PKHPkScriptSize, 0)

IsNullInput(in) ==
    /\ in.PreviousOutPoint.Hash = ZeroHash
    /\ in.PreviousOutPoint.Index = MaxPrevOutIndex

\* Mutant: the version gate one version too low.
ssfeeVersionOKFromTwo(tx) == tx.Version >= SSFeeMinVersion - 1

\* version >= 3.
ssfeeVersionOK(tx) == tx.Version >= SSFeeMinVersion

\* Mutant: only the null input form is accepted.
ssfeeInputOKNullOnly(tx) ==
    /\ Len(tx.TxIn) = 1
    /\ IsNullInput(tx.TxIn[1])

\* Exactly one input: a null input, or a reference to a real previous
\* output with an empty signature script.
ssfeeInputOK(tx) ==
    /\ Len(tx.TxIn) = 1
    /\ \/ IsNullInput(tx.TxIn[1])
       \/ tx.TxIn[1].SignatureScript = <<>>

\* The 2-byte tag of the final output when it is a marker, "" otherwise.
ssfeeMarkerTag(tx) ==
    IF Len(tx.TxOut) = 0 THEN ""
    ELSE LET last == tx.TxOut[Len(tx.TxOut)]
             script == last.PkScript
         IN  IF /\ last.Value = 0
                /\ Len(script) = 8
                /\ script[1] = OP_RETURN
                /\ script[2] = OP_DATA_6
             THEN IF script[3] = ByteM /\ script[4] = ByteF THEN "MF"
                  ELSE IF script[3] = ByteS /\ script[4] = ByteF THEN "SF"
                  ELSE ""
             ELSE ""

\* Mutant: no cap on the reward outputs and no coin type comparison.
ssfeeRewardsOKAnyNumber(tx) == Len(tx.TxOut) >= 2

\* Between 1 and 4 outputs before the final one, all of one coin type.
ssfeeRewardsOK(tx) ==
    LET rewards == Len(tx.TxOut) - 1
    IN  /\ rewards >= 1
        /\ rewards <= SSFeeMaxRewards
        /\ \A i \in 1..rewards : tx.TxOut[i].CoinType = tx.TxOut[1].CoinType

getSSFeeType(tx) ==
    IF ssfeeVersionOK(tx) /\ ssfeeInputOK(tx) /\ ssfeeRewardsOK(tx)
    THEN ssfeeMarkerTag(tx)
    ELSE ""

isSSFeeTx(tx) == getSSFeeType(tx) # ""

\* Mutant: the miner predicate true of every SSFee transaction.
isSSFeeMinerTxAnyTag(tx) == getSSFeeType(tx) # ""

isSSFeeMinerTx(tx) == getSSFeeType(tx) = "MF"

(* The transactions the classifier is applied to. *)

SsfVersions == {1, 2, 3, 4}
SsfInputForms == {NullInput, AugmentedInput, CoinbaseInput, SignedInput}
SsfInputLists ==
    {<<>>} \cup {<<in>> : in \in SsfInputForms}
    \cup {[i \in 1..n |-> IF i = 1 THEN in ELSE NullInput] :
            in \in SsfInputForms, n \in 2..MaxInputs}
SsfCoinTypes == {CoinTypeVAR, 1, 255}
SsfValues == {0, 1000}

\* A different coin type.
OtherCoinType(ct) == IF ct = 1 THEN 2 ELSE 1

\* n reward outputs of one coin type, or with the output at position odd
\* of another coin type.
SsfRewards(n, ct, value, odd) ==
    [i \in 1..n |-> TxOut(value, IF i = odd THEN OtherCoinType(ct) ELSE ct,
                          DummyP2PKH)]

SsfRewardLists ==
    {SsfRewards(n, ct, value, odd) :
        n \in 0..MaxRewards, ct \in SsfCoinTypes, value \in SsfValues,
        odd \in {0, 1, 2}}

SsfFinalScripts ==
    {MarkerScript(ByteM, ByteF, HeightBytes),
     MarkerScript(ByteS, ByteF, HeightBytes),
     MarkerScript(ByteS, ByteF, <<1, 2, 3, 4>>),
     MarkerScript(ByteF, ByteS, HeightBytes),
     MarkerScript(ByteM, ByteF, <<0, 0, 0>>),
     MarkerScript(ByteS, ByteF, <<0, 0, 0, 0, 0>>),
     <<OP_RETURN, OP_DATA_6 + 1, ByteS, ByteF>> \o HeightBytes,
     <<OP_RETURN>>,
     DummyP2PKH}

SsfFinalOutputs ==
    {TxOut(value, ct, script) :
        value \in {0, 1}, ct \in {1}, script \in SsfFinalScripts}

SsfTransactions ==
    {[Version |-> v, TxIn |-> ins, TxOut |-> rewards \o final] :
        v \in SsfVersions, ins \in SsfInputLists, rewards \in SsfRewardLists,
        final \in {<<>>} \cup {<<f>> : f \in SsfFinalOutputs}}

SsfInit ==
    /\ OthersIdleThanSsf
    /\ ssfTx \in SsfTransactions
    /\ ssfPc = "args"
    /\ ssfResult = NoClassification

\* The three predicates applied to the drawn transaction.
Classify ==
    /\ ssfPc = "args"
    /\ ssfPc' = "done"
    /\ ssfResult' = [ssFeeType |-> getSSFeeType(ssfTx),
                     isSSFee |-> isSSFeeTx(ssfTx),
                     isMiner |-> isSSFeeMinerTx(ssfTx)]
    /\ UNCHANGED <<ssfTx, nonSsfVars>>

SsfNext == Classify

SsfSpec == SsfInit /\ [][SsfNext]_vars

(* Claims about the SSFee classifier. *)

SsfDone == ssfPc = "done"
Classified == ssfResult.ssFeeType # ""
InputCount == Len(ssfTx.TxIn)
RewardCount == Len(ssfTx.TxOut) - 1
RewardCoinTypes == {ssfTx.TxOut[i].CoinType : i \in 1..RewardCount}
FinalScript == ssfTx.TxOut[Len(ssfTx.TxOut)].PkScript

\* The input is the null outpoint: 32 zero bytes and index 0xffffffff.
InputIsNull(in) ==
    /\ \A i \in 1..32 : in.PreviousOutPoint.Hash[i] = 0
    /\ in.PreviousOutPoint.Index = <<65535, 65535>>

\* The input names a real previous output and carries no signature script.
InputIsAugmented(in) == ~InputIsNull(in) /\ Len(in.SignatureScript) = 0

OneNullOrAugmentedInput ==
    /\ InputCount = 1
    /\ InputIsNull(ssfTx.TxIn[1]) \/ InputIsAugmented(ssfTx.TxIn[1])

OneToFourSameTypeRewards ==
    /\ RewardCount \in 1..4
    /\ Cardinality(RewardCoinTypes) = 1

\* The final output is 0x6a 0x06 "MF"|"SF" <4 height bytes> of value 0.
ValidMarker ==
    /\ Len(ssfTx.TxOut) >= 1
    /\ ssfTx.TxOut[Len(ssfTx.TxOut)].Value = 0
    /\ Len(FinalScript) = 8
    /\ SubSeq(FinalScript, 1, 2) = <<106, 6>>
    /\ SubSeq(FinalScript, 3, 4) \in {<<77, 70>>, <<83, 70>>}

MarkerTag == IF SubSeq(FinalScript, 3, 4) = <<77, 70>> THEN "MF" ELSE "SF"

\* The structural rule without its version part.
ShapedLikeSSFee ==
    OneNullOrAugmentedInput /\ OneToFourSameTypeRewards /\ ValidMarker

\* C13: a transaction that satisfies every part of the SSFee structural
\* rule other than the version is classified as none when its version is 2
\* or lower and with its marker's tag when its version is 3 or higher.
C13_VersionGate ==
    (SsfDone /\ ShapedLikeSSFee) =>
        /\ ssfTx.Version <= 2 => ssfResult.ssFeeType = "" /\ ~ssfResult.isSSFee
        /\ ssfTx.Version >= 3 => ssfResult.ssFeeType = MarkerTag

C13_Witness ==
    /\ SsfDone
    /\ ShapedLikeSSFee
    /\ ssfTx.Version = 2
    /\ ssfResult.ssFeeType = ""

\* C14: getSSFeeType returns the marker's tag when the transaction
\* satisfies the structural rule (version included) and the empty result
\* otherwise; isSSFeeTx holds exactly when the type is non-empty and
\* isSSFeeMinerTx exactly when it is "MF".
C14_TypeIsTagOrNone ==
    SsfDone =>
        /\ ssfResult.ssFeeType =
              (IF ShapedLikeSSFee /\ ssfTx.Version >= 3 THEN MarkerTag ELSE "")
        /\ ssfResult.isSSFee <=> ssfResult.ssFeeType # ""
        /\ ssfResult.isMiner <=> ssfResult.ssFeeType = "MF"

C14_Witness ==
    /\ SsfDone
    /\ InputCount = 1
    /\ InputIsAugmented(ssfTx.TxIn[1])
    /\ ssfResult.ssFeeType = "SF"
    /\ ssfResult.isSSFee
    /\ ~ssfResult.isMiner

\* The drawn transaction with its only input replaced.
WithInput(in) == [ssfTx EXCEPT !.TxIn = <<in>>]

\* C15: a classified transaction has exactly one input, null or augmented;
\* both forms are accepted when the rest of the rule holds; exchanging a
\* null input for an augmented one, or the reverse, leaves the
\* classification unchanged; zero inputs or two and more are never
\* classified.
C15_OneInputOfEitherForm ==
    SsfDone =>
        /\ Classified => OneNullOrAugmentedInput
        /\ InputCount # 1 => ~Classified
        /\ (OneNullOrAugmentedInput /\ OneToFourSameTypeRewards
              /\ ValidMarker /\ ssfTx.Version >= 3) => Classified
        /\ (InputCount = 1 /\ InputIsNull(ssfTx.TxIn[1])
              /\ ssfTx.TxIn[1].SignatureScript = <<>>) =>
              ssfResult.ssFeeType = getSSFeeType(WithInput(AugmentedInput))
        /\ (InputCount = 1 /\ InputIsAugmented(ssfTx.TxIn[1])) =>
              ssfResult.ssFeeType = getSSFeeType(WithInput(NullInput))

C15_Witness ==
    /\ SsfDone
    /\ InputCount = 1
    /\ InputIsAugmented(ssfTx.TxIn[1])
    /\ ssfResult.ssFeeType = "MF"
    /\ getSSFeeType(WithInput(NullInput)) = "MF"

----------------------------------------------------------------------------
(* wallet: coinbaseMatured, the maturity gate of SSFee outputs, as the     *)
(* chain tip advances.                                                     *)

MaxTipHeight == 12  \* the highest chain tip
MaxTxHeight == 3    \* the highest block holding the output

CoinbaseMaturities == {1, 2, 4}

\* Mutant: one block too late.
coinbaseMaturedOneLate(maturity, height, tip) ==
    height >= 0 /\ tip - height > maturity

\* coinbaseMatured(params, txHeight, curHeight)
coinbaseMatured(maturity, height, tip) ==
    height >= 0 /\ tip - height + 1 > maturity

\* The output is in a block at txHeight (-1: in no block); the tip is that
\* block, or the genesis block.
MatInit ==
    /\ OthersIdleThanMat
    /\ cbMaturity \in CoinbaseMaturities
    /\ txHeight \in -1..MaxTxHeight
    /\ tipHeight = (IF txHeight < 0 THEN 0 ELSE txHeight)
    /\ matured = coinbaseMatured(cbMaturity, txHeight, tipHeight)

\* A block is attached to the tip; the gate is evaluated at the new tip.
AdvanceTip ==
    /\ tipHeight < MaxTipHeight
    /\ tipHeight' = tipHeight + 1
    /\ matured' = coinbaseMatured(cbMaturity, txHeight, tipHeight + 1)
    /\ UNCHANGED <<cbMaturity, txHeight, nonMatVars>>

MatNext == AdvanceTip

MatSpec == MatInit /\ [][MatNext]_vars

(* Claims about the maturity of SSFee outputs. *)

\* C17: an SSFee output mined at height h is spendable at tip t exactly
\* when h >= 0 and t - h >= CoinbaseMaturity: unspendable at every tip
\* below h + maturity, spendable from tip h + maturity on, and never
\* unspendable again; an output with negative height is never mature.
C17_SSFeeOutputMaturity ==
    /\ [](/\ matured <=> (txHeight >= 0 /\ tipHeight - txHeight >= cbMaturity)
          /\ tipHeight < txHeight + cbMaturity => ~matured
          /\ txHeight < 0 => ~matured)
    /\ [][/\ matured => matured'
          /\ (~matured /\ matured') => tipHeight' = txHeight + cbMaturity]_vars

C17_Witness ==
    /\ txHeight = 3
    /\ cbMaturity = 4
    /\ tipHeight = 7
    /\ matured

----------------------------------------------------------------------------
(* wallet/udb/consolidation.go: the per-account consolidation addresses.   *)

Hash160Len == 20

\* len() of a byte slice: 0 for nil.
GoLen(b) == IF b.isNil THEN 0 ELSE Len(b.bytes)

OpSetAccountConsolidationAddr == "udb.SetAccountConsolidationAddr"
OpGetAccountConsolidationAddr == "udb.GetAccountConsolidationAddr"
OpClearAccountConsolidationAddr == "udb.ClearAccountConsolidationAddr"

HashLenMsg == "hash160 must be exactly 20 bytes"
AccountNameMsg == "account name cannot be empty"
StoredLenMsg == "invalid hash160 length"

\* A method call on the nil bucket that ReadWriteBucket returns when the
\* bucket does not exist: the call does not return.
NilBucketPanic ==
    [op |-> "", kind |-> "panic", msg |-> "nil pointer dereference"]

EmptyRecords == [k \in {} |-> NilBytes]
EmptyBucket == [exists |-> TRUE, records |-> EmptyRecords]

\* walletdb bucket: Get returns nil for a key without record.
BucketGet(b, key) ==
    IF key \in DOMAIN b.records THEN b.records[key] ELSE NilBytes

BucketPut(b, key, value) ==
    [b EXCEPT !.records =
        [k \in DOMAIN b.records \cup {key} |->
            IF k = key THEN Bytes(value.bytes) ELSE b.records[k]]]

BucketDelete(b, key) ==
    [b EXCEPT !.records = [k \in DOMAIN b.records \ {key} |-> b.records[k]]]

StoreReturn(b, err) == [bucket |-> b, err |-> err]

\* Mutant: the length of the hash is not validated.
SetAccountConsolidationAddrAnyLength(b, accountName, hash160, putFails) ==
    IF accountName = ""
    THEN StoreReturn(b, E(OpSetAccountConsolidationAddr, "Invalid",
                          AccountNameMsg))
    ELSE IF ~b.exists THEN StoreReturn(b, NilBucketPanic)
    ELSE IF hash160.isNil THEN StoreReturn(BucketPut(b, accountName, Bytes(<<>>)), NoErr)
    ELSE StoreReturn(BucketPut(b, accountName, hash160), NoErr)

\* Mutant: the account name is not validated.
SetAccountConsolidationAddrAnyName(b, accountName, hash160, putFails) ==
    IF GoLen(hash160) # Hash160Len
    THEN StoreReturn(b, E(OpSetAccountConsolidationAddr, "Invalid", HashLenMsg))
    ELSE IF ~b.exists THEN StoreReturn(b, NilBucketPanic)
    ELSE StoreReturn(BucketPut(b, accountName, hash160), NoErr)

SetAccountConsolidationAddr(b, accountName, hash160, putFails) ==
    IF GoLen(hash160) # Hash160Len
    THEN StoreReturn(b, E(OpSetAccountConsolidationAddr, "Invalid", HashLenMsg))
    ELSE IF accountName = ""
    THEN StoreReturn(b, E(OpSetAccountConsolidationAddr, "Invalid",
                          AccountNameMsg))
    ELSE IF ~b.exists THEN StoreReturn(b, NilBucketPanic)
    ELSE IF putFails
    THEN StoreReturn(b, E(OpSetAccountConsolidationAddr, "IO", ""))
    ELSE StoreReturn(BucketPut(b, accountName, hash160), NoErr)

GetReturn(value, err) == [value |-> value, err |-> err]

\* Mutant: an absent record is answered with a default address.
GetAccountConsolidationAddrDefault(b, accountName) ==
    IF accountName = ""
    THEN GetReturn(NilBytes, E(OpGetAccountConsolidationAddr, "Invalid",
                               AccountNameMsg))
    ELSE IF ~b.exists THEN GetReturn(NilBytes, NoErr)
    ELSE LET hash160 == BucketGet(b, accountName)
         IN  IF hash160.isNil
             THEN GetReturn(Bytes(Repeat(Hash160Len, 0)), NoErr)
             ELSE IF GoLen(hash160) # Hash160Len
             THEN GetReturn(NilBytes, E(OpGetAccountConsolidationAddr, "IO",
                                        StoredLenMsg))
             ELSE GetReturn(Bytes(hash160.bytes), NoErr)

GetAccountConsolidationAddr(b, accountName) ==
    IF accountName = ""
    THEN GetReturn(NilBytes, E(OpGetAccountConsolidationAddr, "Invalid",
                               AccountNameMsg))
    ELSE IF ~b.exists THEN GetReturn(NilBytes, NoErr)
    ELSE LET hash160 == BucketGet(b, accountName)
         IN  IF hash160.isNil THEN GetReturn(NilBytes, NoErr)
             ELSE IF GoLen(hash160) # Hash160Len
             THEN GetReturn(NilBytes, E(OpGetAccountConsolidationAddr, "IO",
                                        StoredLenMsg))
             ELSE GetReturn(Bytes(hash160.bytes), NoErr)

\* Mutant: the records of all accounts are deleted.
ClearAccountConsolidationAddrAll(b, accountName, deleteFails) ==
    IF accountName = ""
    THEN StoreReturn(b, E(OpClearAccountConsolidationAddr, "Invalid",
                          AccountNameMsg))
    ELSE IF ~b.exists THEN StoreReturn(b, NilBucketPanic)
    ELSE StoreReturn([b EXCEPT !.records = EmptyRecords], NoErr)

ClearAccountConsolidationAddr(b, accountName, deleteFails) ==
    IF accountName = ""
    THEN StoreReturn(b, E(OpClearAccountConsolidationAddr, "Invalid",
                          AccountNameMsg))
    ELSE IF ~b.exists THEN StoreReturn(b, NilBucketPanic)
    ELSE IF deleteFails
    THEN StoreReturn(b, E(OpClearAccountConsolidationAddr, "IO", ""))
    ELSE StoreReturn(BucketDelete(b, accountName), NoErr)

(* The calls on the store. *)

StoreAccounts == {"", "default", "imported"}
Hash160Args ==
    {NilBytes, Bytes(<<>>), Bytes(Repeat(Hash160Len - 1, 1)),
     Bytes(Repeat(Hash160Len, 1)), Bytes(Repeat(Hash160Len, 2)),
     Bytes(Repeat(Hash160Len + 1, 1))}

Called(op, accountName, hash160, fault, err, value) ==
    [op |-> op, account |-> accountName, hash160 |-> hash160,
     fault |-> fault, err |-> err, value |-> value]

StoreInit ==
    /\ OthersIdleThanStore
    /\ bucket = NoBucket
    /\ lastCall = NoCall

\* The bucket comes into existence (a database upgrade).
CreateBucket ==
    /\ ~bucket.exists
    /\ bucket' = EmptyBucket
    /\ lastCall' = Called("CreateBucket", "", NilBytes, FALSE, NoErr, NilBytes)
    /\ UNCHANGED nonStoreVars

SetAddr ==
    /\ \E a \in StoreAccounts, h \in Hash160Args, putFails \in BOOLEAN :
          LET r == SetAccountConsolidationAddr(bucket, a, h, putFails)
          IN  /\ bucket' = r.bucket
              /\ lastCall' = Called("Set", a, h, putFails, r.err, NilBytes)
    /\ UNCHANGED nonStoreVars

GetAddr ==
    /\ \E a \in StoreAccounts :
          LET r == GetAccountConsolidationAddr(bucket, a)
          IN  lastCall' = Called("Get", a, NilBytes, FALSE, r.err, r.value)
    /\ UNCHANGED <<bucket, nonStoreVars>>

ClearAddr ==
    /\ \E a \in StoreAccounts, deleteFails \in BOOLEAN :
          LET r == ClearAccountConsolidationAddr(bucket, a, deleteFails)
          IN  /\ bucket' = r.bucket
              /\ lastCall' = Called("Clear", a, NilBytes, deleteFails, r.err,
                                    NilBytes)
    /\ UNCHANGED nonStoreVars

StoreNext == CreateBucket \/ SetAddr \/ GetAddr \/ ClearAddr

StoreSpec == StoreInit /\ [][StoreNext]_vars

(* Claims about the consolidation store. *)

\* What Get returns for every account.
AllGets(b) == [a \in StoreAccounts |-> GetAccountConsolidationAddr(b, a)]

NoOverride == [value |-> [isNil |-> TRUE, bytes |-> <<>>],
               err |-> [op |-> "", kind |-> "nil", msg |-> ""]]

SetRejectable(call) ==
    /\ call.op = "Set"
    /\ \/ call.hash160.isNil
       \/ Len(call.hash160.bytes) # 20
       \/ call.account = ""

\* C18: SetAccountConsolidationAddr returns an Invalid error whenever the
\* hash is not exactly 20 bytes (nil and empty included) or the account
\* name is empty, and then Get returns for every account what it returned
\* before the call.
C18_SetRejectsAndLeavesStore ==
    [][SetRejectable(lastCall') =>
          /\ lastCall'.err.kind = "Invalid"
          /\ lastCall'.err.op = "udb.SetAccountConsolidationAddr"
          /\ AllGets(bucket') = AllGets(bucket)]_vars

C18_Witness ==
    /\ lastCall.op = "Set"
    /\ lastCall.account = "default"
    /\ ~lastCall.hash160.isNil
    /\ Len(lastCall.hash160.bytes) = 19
    /\ lastCall.err.kind = "Invalid"
    /\ bucket.exists
    /\ "default" \in DOMAIN bucket.records

\* A Set or Clear call with valid arguments on a storage that works.
ValidSet(call) ==
    /\ call.op = "Set"
    /\ call.account # ""
    /\ ~call.hash160.isNil
    /\ Len(call.hash160.bytes) = 20
    /\ ~call.fault

ValidClear(call) == call.op = "Clear" /\ call.account # "" /\ ~call.fault

\* C19: starting from a store on which nothing has been set, after every
\* Set(a, h) with a 20-byte h Get(a) returns h, after every Clear(a)
\* Get(a) returns "no override", and the other accounts keep what Get
\* returned for them.
C19_GetReflectsLatestSetOrClear ==
    [][/\ ValidSet(lastCall') =>
            /\ GetAccountConsolidationAddr(bucket', lastCall'.account) =
                  [value |-> lastCall'.hash160, err |-> NoOverride.err]
            /\ \A a \in StoreAccounts \ {lastCall'.account} :
                  AllGets(bucket')[a] = AllGets(bucket)[a]
       /\ ValidClear(lastCall') =>
            /\ GetAccountConsolidationAddr(bucket', lastCall'.account) =
                  NoOverride
            /\ \A a \in StoreAccounts \ {lastCall'.account} :
                  AllGets(bucket')[a] = AllGets(bucket)[a]]_vars

\* C20: in every store state in which Get(a) reports "no override" for a
\* non-empty account a, the state without bucket included, Clear(a)
\* returns no error and leaves the store unchanged; a second Clear(a)
\* changes nothing.
C20_ClearIdempotent ==
    [][ValidClear(lastCall') =>
          /\ GetAccountConsolidationAddr(bucket, lastCall'.account) = NoOverride
                => /\ lastCall'.err.kind = "nil"
                   /\ bucket' = bucket
          /\ ClearAccountConsolidationAddr(bucket', lastCall'.account, FALSE).bucket
                = bucket']_vars

----------------------------------------------------------------------------
(* The store with records of a wrong length in it: GetAccountConsolidationAddr *)
(* defends against stored data that no SetAccountConsolidationAddr wrote.      *)

CorruptValues ==
    {Bytes(Repeat(Hash160Len - 1, 3)), Bytes(Repeat(Hash160Len + 1, 3))}

\* A record of a wrong length appears in the bucket (written by something
\* other than SetAccountConsolidationAddr).
CorruptRecord ==
    /\ bucket.exists
    /\ \E a \in StoreAccounts \ {""}, v \in CorruptValues :
          /\ bucket' = BucketPut(bucket, a, v)
          /\ lastCall' = Called("Corrupt", a, v, FALSE, NoErr, NilBytes)
    /\ UNCHANGED nonStoreVars

FaultyStoreNext == StoreNext \/ CorruptRecord

FaultyStoreSpec == StoreInit /\ [][FaultyStoreNext]_vars

HasRecord(a) == bucket.exists /\ a \in DOMAIN bucket.records

\* C21: a Get with a non-empty account returns "no override" (nil, no
\* error) whenever the bucket does not exist or holds no record for the
\* account; what it returns is nil or the stored record, never another
\* address; an empty account name gives an Invalid error; an IO error is
\* returned only when the stored record is not 20 bytes long.
C21_GetNoOverrideInvalidIO ==
    lastCall.op = "Get" =>
        /\ (lastCall.account # "" /\ ~HasRecord(lastCall.account))
              => (lastCall.value.isNil /\ lastCall.err.kind = "nil")
        /\ ~lastCall.value.isNil
              => /\ HasRecord(lastCall.account)
                 /\ lastCall.value = bucket.records[lastCall.account]
                 /\ lastCall.err.kind = "nil"
        /\ lastCall.account = ""
              => (lastCall.err.kind = "Invalid" /\ lastCall.value.isNil)
        /\ lastCall.err.kind = "IO"
              => /\ HasRecord(lastCall.account)
                 /\ Len(bucket.records[lastCall.account].bytes) # 20
        /\ lastCall.err.kind \in {"nil", "Invalid", "IO"}

C21_Witness ==
    /\ lastCall.op = "Get"
    /\ lastCall.account = "default"
    /\ lastCall.value.isNil
    /\ lastCall.err.kind = "nil"
    /\ bucket.exists
    /\ DOMAIN bucket.records = {"imported"}

----------------------------------------------------------------------------
(* Concurrent writers: each Set or Clear runs inside its own read-write    *)
(* transaction; the storage admits one read-write transaction at a time,   *)
(* commits it when the function returns nil and rolls it back otherwise.   *)

NumWriters == 3

Writers == 1..NumWriters

WriterOps ==
    [op : {"Set"}, account : StoreAccounts \ {""},
     hash160 : {Bytes(Repeat(Hash160Len, 1)), Bytes(Repeat(Hash160Len, 2))}]
    \cup [op : {"Set"}, account : {"default"},
          hash160 : {Bytes(Repeat(Hash160Len - 1, 1))}]
    \cup [op : {"Clear"}, account : StoreAccounts \ {""}, hash160 : {NilBytes}]

Txn(o, at, view, err) == [o |-> o, pc |-> at, view |-> view, err |-> err]

TxBuckets ==
    {NoBucket, EmptyBucket,
     BucketPut(EmptyBucket, "default", Bytes(Repeat(Hash160Len, 1)))}

TxInit ==
    /\ OthersIdleThanTx
    /\ bucket \in TxBuckets
    /\ lastCall = NoCall
    /\ txns \in [Writers -> {Txn(o, "ready", NoBucket, NoErr) : o \in WriterOps}]
    /\ writer = 0
    /\ expected = [a \in StoreAccounts \ {""} |-> BucketGet(bucket, a)]

\* The storage opens the read-write transaction of writer p.
Begin(p) ==
    /\ txns[p].pc = "ready"
    /\ writer = 0
    /\ writer' = p
    /\ txns' = [txns EXCEPT ![p] = Txn(@.o, "open", bucket, NoErr)]
    /\ UNCHANGED <<bucket, lastCall, expected, nonTxVars>>

\* Writer p runs its function on the transaction.
Run(p) ==
    /\ txns[p].pc = "open"
    /\ LET o == txns[p].o
           r == IF o.op = "Set"
                THEN SetAccountConsolidationAddr(txns[p].view, o.account,
                                                 o.hash160, FALSE)
                ELSE ClearAccountConsolidationAddr(txns[p].view, o.account,
                                                   FALSE)
       IN  txns' = [txns EXCEPT ![p] = Txn(o, "ran", r.bucket, r.err)]
    /\ UNCHANGED <<bucket, lastCall, writer, expected, nonTxVars>>

\* The storage commits the transaction of writer p, or rolls it back when
\* the function did not return nil.
End(p) ==
    /\ txns[p].pc = "ran"
    /\ LET o == txns[p].o
           ok == txns[p].err = NoErr
       IN  /\ bucket' = IF ok THEN txns[p].view ELSE bucket
           /\ expected' = IF ok
                          THEN [expected EXCEPT ![o.account] =
                                  IF o.op = "Set" THEN o.hash160 ELSE NilBytes]
                          ELSE expected
           /\ lastCall' = Called(o.op, o.account, o.hash160, FALSE,
                                 txns[p].err, NilBytes)
           /\ txns' = [txns EXCEPT ![p] = Txn(o, "done", NoBucket, @.err)]
    /\ writer' = 0
    /\ UNCHANGED nonTxVars

TxNext == \E p \in Writers : Begin(p) \/ Run(p) \/ End(p)

TxSpec == TxInit /\ [][TxNext]_vars

\* C22: for every interleaving of concurrent Set and Clear transactions,
\* the record of each account is the effect of the last committed Set or
\* Clear on that account alone (the record it had at the start when none
\* committed), and a committed operation on one account never changes what
\* Get returns for another account.
C22_LastWriterWinsPerKey ==
    /\ [](writer = 0 =>
            \A a \in StoreAccounts \ {""} :
                /\ BucketGet(bucket, a) = expected[a]
                /\ GetAccountConsolidationAddr(bucket, a).value = expected[a])
    /\ [][\A b \in StoreAccounts \ {lastCall'.account} :
              GetAccountConsolidationAddr(bucket', b) =
                  GetAccountConsolidationAddr(bucket, b)]_vars

C22_Witness ==
    /\ \A p \in Writers : txns[p].pc = "done"
    /\ \E p, q \in Writers :
          /\ p # q
          /\ txns[p].o.account = "default" /\ txns[q].o.account = "default"
          /\ txns[p].o.op = "Set" /\ txns[q].o.op = "Set"
          /\ txns[p].o.hash160 # txns[q].o.hash160
          /\ txns[p].err = NoErr /\ txns[q].err = NoErr
    /\ \E r \in Writers : txns[r].o.account = "imported" /\ txns[r].err = NoErr
    /\ ~BucketGet(bucket, "default").isNil

----------------------------------------------------------------------------
(* AuthoredTx.RandomizeChangePosition on the returned transaction. *)

\* A Go run-time panic of an index expression or of rand.Int32N(0).
RuntimePanic == [op |-> "", kind |-> "panic", msg |-> "index out of range"]

\* What rand.Int32N(int32(len(outputs))) can return; it panics for 0.
RandomDraws(outs) == 0 .. (Len(outs) - 1)

\* RandomizeOutputPosition with the draw r: swaps outputs[r] and
\* outputs[index] (Go indices) and returns r; an index outside the slice
\* panics before anything is assigned.
RandomizeOutputPosition(outs, index, r) ==
    IF Len(outs) = 0 \/ index < 0 \/ index >= Len(outs)
    THEN [panic |-> TRUE, outputs |-> outs, index |-> index]
    ELSE [panic |-> FALSE,
          outputs |-> [outs EXCEPT ![r + 1] = outs[index + 1],
                                   ![index + 1] = outs[r + 1]],
          index |-> r]

RandomizeChangePosition ==
    /\ pc = "done"
    /\ result.err = NoErr
    /\ \E r \in RandomDraws(result.tx.TxOut) \cup {0} :
          LET s == RandomizeOutputPosition(result.tx.TxOut,
                                           result.tx.ChangeIndex, r)
          IN  result' = IF s.panic
                        THEN [result EXCEPT !.err = RuntimePanic]
                        ELSE [result EXCEPT !.tx.TxOut = s.outputs,
                                            !.tx.ChangeIndex = s.index]
    /\ UNCHANGED <<pc, outputs, relayFeePerKb, changeScriptSize,
                   changeScriptLen, maxTxSize, emissionOutputs, targetFee,
                   fetchLog, inputDetail, nonAuthorVars>>

RandNext == Next \/ RandomizeChangePosition

RandSpec == Init /\ [][RandNext]_vars

IsPermutationOf(s, t) ==
    /\ Len(s) = Len(t)
    /\ \E f \in [1..Len(s) -> 1..Len(s)] :
          /\ \A i, j \in 1..Len(s) : f[i] = f[j] => i = j
          /\ \A i \in 1..Len(s) : s[i] = t[f[i]]

\* C23: every RandomizeChangePosition call on a successfully authored
\* transaction returns with the outputs a permutation of the outputs
\* before the call, with ChangeIndex -1 if the transaction has no change
\* output and otherwise an index of the outputs at which the change output
\* now sits.
C23_RandomizeKeepsOutputsAndChangeIndex ==
    [][(pc = "done" /\ pc' = "done" /\ result.err.kind = "nil"
            /\ result' # result) =>
          /\ result'.err.kind = "nil"
          /\ IsPermutationOf(result'.tx.TxOut, result.tx.TxOut)
          /\ result.tx.ChangeIndex = -1 => result'.tx.ChangeIndex = -1
          /\ result.tx.ChangeIndex >= 0 =>
                /\ result'.tx.ChangeIndex \in 0 .. (Len(result'.tx.TxOut) - 1)
                /\ result'.tx.TxOut[result'.tx.ChangeIndex + 1] =
                      result.tx.TxOut[result.tx.ChangeIndex + 1]]_vars

----------------------------------------------------------------------------
(* Operation tags of the errors. *)

OpOfCall(name) ==
    CASE name = "Set" -> "udb.SetAccountConsolidationAddr"
      [] name = "Get" -> "udb.GetAccountConsolidationAddr"
      [] name = "Clear" -> "udb.ClearAccountConsolidationAddr"
      [] OTHER -> ""

\* C24: every error returned by NewUnsignedTransaction carries the tag
\* txauthor.NewUnsignedTransaction, and every error returned by
\* SetAccountConsolidationAddr, GetAccountConsolidationAddr and
\* ClearAccountConsolidationAddr carries the tag of that function.
C24_ErrorsCarryOperationTag ==
    /\ (pc = "done" /\ result.err.kind # "nil")
          => result.err.op = "txauthor.NewUnsignedTransaction"
    /\ lastCall.err.kind \in {"Invalid", "IO"}
          => lastCall.err.op = OpOfCall(lastCall.op)

----------------------------------------------------------------------------
(* Claims about the convergence loop of NewUnsignedTransaction. *)

\* C25: within one call the fee estimate never decreases from one loop
\* iteration to the next; every retry sets it to a value strictly greater
\* than the fee of the fetch just made; the fees of successive fetches, and
\* for the primary asset the targets passed to the input source, are
\* strictly increasing.
C25_FeeEstimateGrows ==
    /\ [][pc = "loop" => targetFee' >= targetFee]_vars
    /\ [][(pc = "loop" /\ pc' = "loop") =>
             /\ Len(fetchLog') = Len(fetchLog) + 1
             /\ targetFee' > fetchLog'[Len(fetchLog')].fee]_vars
    /\ [](\A i \in 1 .. (Len(fetchLog) - 1) :
             /\ fetchLog[i].fee < fetchLog[i + 1].fee
             /\ ~isSKAOutputs(outputs)
                   => fetchLog[i].target < fetchLog[i + 1].target)

C25_Witness ==
    /\ pc = "done"
    /\ result.err.kind = "nil"
    /\ ~isSKAOutputs(outputs)
    /\ Len(fetchLog) >= 2
    /\ fetchLog[1].target < fetchLog[2].target

\* C26: when the requested outputs alone match the emission pattern, the
\* fee estimate stays 0, inputs are fetched at most once, and a returned
\* transaction pays no fee (inputs minus outputs minus change is 0),
\* whatever inputs the input source returns.
C26_EmissionOutputsForceZeroFee ==
    (emissionOutputs /\ pc # "idle") =>
        /\ targetFee = 0
        /\ Len(fetchLog) <= 1
        /\ Succeeded => PaidFee = 0

\* C27: on success EstimatedSignedSerializeSize is the estimate over the
\* actual redeem-script sizes and the requested outputs with a change
\* output of the change source's script size when a change output was
\* added, and the zero-change estimate when none was added; the with-change
\* estimate is never smaller than the zero-change estimate.
C27_ReturnedSizeFollowsChange ==
    Succeeded =>
        /\ HasChangeOut => ReturnedSize = WithChangeEstimate
        /\ ~HasChangeOut => ReturnedSize = NoChangeEstimate
        /\ WithChangeEstimate >= NoChangeEstimate

C27_Witness ==
    /\ Succeeded
    /\ ~HasChangeOut
    /\ changeScriptSize > 0
    /\ ReturnedSize = NoChangeEstimate
    /\ ReturnedSize < WithChangeEstimate

\* C28: on success the outputs of the returned transaction are the
\* requested outputs in their order followed by at most one change output;
\* ChangeIndex is len(requested outputs) when a change output was added and
\* -1 otherwise; no step of the call changes the caller's outputs slice.
C28_OutputsThenChange ==
    /\ [](Succeeded =>
            /\ SubSeq(result.tx.TxOut, 1, Len(outputs)) = outputs
            /\ Len(result.tx.TxOut) \in {Len(outputs), Len(outputs) + 1}
            /\ Len(result.tx.TxOut) = Len(outputs) + 1
                  <=> result.tx.ChangeIndex = Len(outputs)
            /\ Len(result.tx.TxOut) = Len(outputs)
                  <=> result.tx.ChangeIndex = -1)
    /\ [][pc # "idle" => outputs' = outputs]_vars

C28_Witness ==
    /\ Succeeded
    /\ Len(outputs) = 2
    /\ outputs[1] # outputs[2]
    /\ Len(result.tx.TxOut) = 3
    /\ result.tx.ChangeIndex = 2
    /\ result.tx.TxOut[3] \notin {outputs[1], outputs[2]}

\* C29: in every state reached from the empty store by Set and Clear calls,
\* successful or rejected, every stored record is exactly 20 bytes long, and
\* Get returns the IO corrupted-length error for no account.
C29_StoredRecordsAreTwentyBytes ==
    /\ \A a \in DOMAIN bucket.records :
          /\ ~bucket.records[a].isNil
          /\ Len(bucket.records[a].bytes) = 20
    /\ \A a \in StoreAccounts :
          GetAccountConsolidationAddr(bucket, a).err.kind # "IO"
    /\ lastCall.op = "Get" => lastCall.err.kind # "IO"

C29_Witness ==
    /\ lastCall.op = "Set"
    /\ Len(lastCall.hash160.bytes) = 21
    /\ lastCall.err.kind = "Invalid"
    /\ DOMAIN bucket.records = {"default", "imported"}
    /\ bucket.records["default"] # bucket.records["imported"]

----------------------------------------------------------------------------
(* Secondary-asset calls on an input source that returns the same result  *)
(* for the same target.                                                   *)

SKADetails == Details(<<SKAOut(1, 1, P2PKHPkScriptSize)>>)

RepeatableInit ==
    /\ AuthorIdle
    /\ SizeIdle /\ FeeIdle /\ SsfIdle /\ MatIdle /\ StoreIdle /\ TxIdle
    /\ inputSource \in SKADetails

\* NewUnsignedTransaction called with secondary-asset outputs.
CallSKA == Call /\ isSKAOutputs(outputs')

\* One loop iteration: fetchInputs(0) returns what it returns every time.
IterateRepeatable ==
    /\ pc = "loop"
    /\ Len(fetchLog) < MaxFetches
    /\ IterateOn(inputSource)
    /\ UNCHANGED <<outputs, relayFeePerKb, changeScriptSize, changeScriptLen,
                   maxTxSize, emissionOutputs, nonAuthorVars>>

RepeatableNext == CallSKA \/ IterateRepeatable

RepeatableSpec == RepeatableInit /\ [][RepeatableNext]_vars

\* C30: in a secondary-asset call every fetch passes the target 0 and
\* InsufficientBalance is returned exactly on a secondary-asset total below
\* outputs plus fee estimate; with a repeatable input source the call makes
\* at most two fetches, and a second fetch ends in InsufficientBalance.
C30_SKAAtMostTwoFetches ==
    /\ \A i \in 1..Len(fetchLog) : fetchLog[i].target = 0
    /\ Len(fetchLog) <= 2
    /\ Len(fetchLog) = 2
          => (pc = "done" /\ result.err.kind = "InsufficientBalance")
    /\ (pc = "done" /\ result.err.kind = "InsufficientBalance")
          <=> (pc = "done" /\ inputSource.SKAAmount <
                                  SumAmounts(outputs) + targetFee)

C30_Witness ==
    /\ pc = "done"
    /\ Len(fetchLog) = 2
    /\ fetchLog[1].fee < fetchLog[2].fee
    /\ result.err.kind = "InsufficientBalance"
    /\ inputSource.SKAAmount >= SumAmounts(outputs) + fetchLog[1].fee

====
